---- MODULE Spec2Model ----
(***************************************************************************)
(* Model of reflex/utils/serializers.py: the type-driven serializer        *)
(* registry (SERIALIZERS, SERIALIZER_TYPES), the registration decorator,   *)
(* the two lru_cache'd resolution functions and the serialize entry point. *)
(*                                                                         *)
(* Python dicts are modelled as sequences of [k, v] records so that the    *)
(* insertion order, which the ancestor scan depends on, is part of the     *)
(* state.  The state at Init is the one right after lines 34-35 (both      *)
(* dicts empty); the @serializer uses further down in the file are         *)
(* ordinary Register steps.                                                *)
(*                                                                         *)
(* Spec takes every call as one step.  SpecReaders and SpecRace take the   *)
(* calls of reader threads, and in SpecRace those of a registering thread, *)
(* in the steps at which threads can interleave.                           *)
(***************************************************************************)
EXTENDS Naturals, Sequences, FiniteSets

VARIABLES SERIALIZERS, SERIALIZER_TYPES, fcache, tcache, regLog, last,
          readers, registrar

vars == <<SERIALIZERS, SERIALIZER_TYPES, fcache, tcache, regLog, last,
          readers, registrar>>

\* Python's None, for every optional value of the model.
NoneV == "None"

\* Bound on the number of successful registrations in one behaviour: a
\* behaviour is explored up to and including its MaxRegs-th registration.
MaxRegs == 3

-----------------------------------------------------------------------------
(* The finite universe the operations draw their inputs from.              *)

\* Runtime types.  A and B are unrelated plain classes; D is a dataclass
\* deriving from both; E is a dataclass with no base in the universe.
Types == {"A", "B", "D", "E"}

\* The direct or indirect proper base classes of a type.
Bases(t) == IF t = "D" THEN {"A", "B"} ELSE {}

\* types._issubclass(type_, registered_type)
IsSubclass(type_, registered_type) ==
    type_ = registered_type \/ registered_type \in Bases(type_)

\* The types a serializer can declare as its output.
OutTypes == {"str", "dict", "int"}

\* Candidate serializer functions.  FnParams gives the declared parameters
\* in order, each with its annotation ("_" when the parameter carries no
\* annotation); FnReturn gives the declared return annotation.
Fns == {"fA", "gA", "fB", "fD", "f0", "f2", "h2"}

FnParams(fn) ==
    CASE fn = "fA" -> <<"A">>
      [] fn = "gA" -> <<"A">>
      [] fn = "fB" -> <<"B">>
      [] fn = "fD" -> <<"D">>
      [] fn = "f0" -> <<>>
      [] fn = "f2" -> <<"A", "B">>
      [] fn = "h2" -> <<"B", "_">>

FnReturn(fn) ==
    CASE fn = "fA" -> "str"
      [] fn = "fB" -> "dict"
      [] OTHER     -> NoneV

\* The `to` arguments a function is registered with: fA, which declares a
\* return type, and fD, which declares none, are also registered with an
\* explicit output type.
ToArgs(fn) == IF fn \in {"fA", "fD"} THEN {NoneV, "int"} ELSE {NoneV}

\* The overwrite arguments a function is registered with: every mode for
\* the functions with one annotated parameter; f0 and f2, which are refused
\* before overwrite is looked at, come with overwrite left unspecified.
OverwriteArgs(fn) ==
    IF fn \in {"f0", "f2"} THEN {NoneV} ELSE {NoneV, "True", "False"}

\* Runtime values handed to serialize.  "a1" is a plain instance of A,
\* "d1" an instance of the dataclass D with the declared fields x and y,
\* "e1" an instance of the dataclass E with the declared field y.  A field
\* x holds the primitive "one", a field y holds the instance "a1".
Values == {"a1", "d1", "e1"}

\* type(value)
TypeOf(value) ==
    CASE value = "a1" -> "A"
      [] value = "d1" -> "D"
      [] value = "e1" -> "E"

\* The types get_serializer and get_serializer_type are called with
\* directly, besides the calls serialize makes.
QueryTypes == {"A", "D"}

\* isinstance(type_, type) and dataclasses.is_dataclass(type_)
IsDataclassType(type_) == type_ \in {"D", "E"}

\* The types has_serializer and can_serialize are asked about, and the
\* output types they are asked about.
AskedTypes == {"D"}

IntoTypes == {NoneV, "dict"}

\* dataclasses.is_dataclass(value) and not isinstance(value, type)
IsDataclassInstance(value) == value \in {"d1", "e1"}

\* dataclasses.fields(value): the declared field names.
FieldNames(value) ==
    CASE value = "d1" -> {"x", "y"}
      [] value = "e1" -> {"y"}
      [] OTHER        -> {}

\* getattr(value, name)
GetAttr(value, name) == IF name = "x" THEN "one" ELSE "a1"

-----------------------------------------------------------------------------
(* dict operations on the ordered representation.                          *)

Keys(d) == {d[i].k : i \in 1..Len(d)}

\* The positions at which key k occurs (at most one in a well-formed dict).
Positions(d, k) == {i \in 1..Len(d) : d[i].k = k}

\* d.get(k)
DictGet(d, k) ==
    IF Positions(d, k) = {} THEN NoneV
    ELSE d[CHOOSE i \in Positions(d, k) : \A j \in Positions(d, k) : i <= j].v

\* A store that always adds a new item, also for a key already present.
DictAppend(d, k, v) == Append(d, [k |-> k, v |-> v])

\* A store that takes an existing key out and puts it back last.
DictMoveToEnd(d, k, v) ==
    Append(SelectSeq(d, LAMBDA e : e.k # k), [k |-> k, v |-> v])

\* d[k] = v : an existing key keeps its position, a new key goes last.
DictSet(d, k, v) ==
    IF k \in Keys(d)
    THEN [i \in 1..Len(d) |-> IF d[i].k = k THEN [k |-> k, v |-> v] ELSE d[i]]
    ELSE Append(d, [k |-> k, v |-> v])

-----------------------------------------------------------------------------
(* Results and the record of the last call.                                *)

\* The lru_cache of a function nobody has called since the last clear.
EmptyCache == [t \in {} |-> NoneV]

\* lru_cache: remember the result for this argument.  With four types the
\* default maxsize of 128 is never reached, so nothing is ever evicted.
Memoise(cache, type_, result) ==
    [t \in (DOMAIN cache) \cup {type_} |-> IF t = type_ THEN result ELSE cache[t]]

\* The serialized values serialize can produce: nothing, the result of
\* applying a serializer to the value, or the field mapping of a dataclass.
Absent == [kind |-> "absent", fn |-> NoneV, arg |-> NoneV, items |-> {}]

Applied(fn, value) == [kind |-> "applied", fn |-> fn, arg |-> value, items |-> {}]

\* {k.name: getattr(value, k.name) for k in dataclasses.fields(value)}
FieldMapping(value) ==
    [kind |-> "mapping", fn |-> NoneV, arg |-> value,
     items |-> {<<name, GetAttr(value, name)>> : name \in FieldNames(value)}]

\* What a call of serialize hands back: one object, or a 2-tuple.
Single(val) == [shape |-> "single", val |-> val, ty |-> NoneV]

Pair(val, ty) == [shape |-> "pair", val |-> val, ty |-> ty]

NoCall ==
    [op |-> "none", fn |-> NoneV, overwrite |-> NoneV,
     type_ |-> NoneV, into_type |-> NoneV, value |-> NoneV, get_type |-> FALSE,
     outcome |-> NoneV, warned |-> FALSE, ret |-> NoneV, sres |-> Single(Absent)]

-----------------------------------------------------------------------------
(* serializer(fn, to, overwrite) -> wrapper(fn)                            *)

\* args = [arg for arg in type_hints if arg != "return"] : get_type_hints
\* lists the annotated parameters only.
AnnotatedArgs(fn) == SelectSeq(FnParams(fn), LAMBDA a : a # "_")

\* if len(args) != 1: raise ValueError
SignatureRaises(fn) == Len(AnnotatedArgs(fn)) # 1

\* type_ = type_hints[args[0]]
ArgType(fn) == AnnotatedArgs(fn)[1]

\* A check that does not compare the registered function with the new one.
OverwritingAlways(registered_fn, fn, overwrite) ==
    registered_fn # NoneV /\ overwrite # "True"

\* registered_fn is not None and registered_fn != fn and overwrite is not True
Overwriting(registered_fn, fn, overwrite) ==
    registered_fn # NoneV /\ registered_fn # fn /\ overwrite # "True"

\* A conflict check that tests the wrong overwrite mode.
ConflictRaisesWhenUnspecified(registered_fn, fn, overwrite) ==
    Overwriting(registered_fn, fn, overwrite) /\ overwrite = NoneV

\* if overwrite is False: raise ValueError(message)
ConflictRaises(registered_fn, fn, overwrite) ==
    Overwriting(registered_fn, fn, overwrite) /\ overwrite = "False"

\* console.warn(...) is reached when the check fires and nothing was raised.
Warns(registered_fn, fn, overwrite) ==
    Overwriting(registered_fn, fn, overwrite) /\ overwrite # "False"

\* The two sources of the output type in the wrong order of precedence.
ToTypeReturnFirst(to, fn) == IF FnReturn(fn) # NoneV THEN FnReturn(fn) ELSE to

\* to_type = to or type_hints.get("return")
ToType(to, fn) == IF to # NoneV THEN to ELSE FnReturn(fn)

\* A registration that declares no output type and takes the one recorded
\* for the type away.
TypesDropStale(type_, to_type) ==
    IF to_type # NoneV THEN DictSet(SERIALIZER_TYPES, type_, to_type)
    ELSE SelectSeq(SERIALIZER_TYPES, LAMBDA e : e.k # type_)

\* if to_type: SERIALIZER_TYPES[type_] = to_type
TypesAfterRegister(type_, to_type) ==
    IF to_type # NoneV THEN DictSet(SERIALIZER_TYPES, type_, to_type)
    ELSE SERIALIZER_TYPES

\* A registration that clears the cache of get_serializer_type every time.
TCacheCleared(to_type) == EmptyCache

\* A registration that never clears the cache of get_serializer_type.
TCacheKept(to_type) == tcache

\* if to_type: get_serializer_type.cache_clear()
TCacheAfterRegister(to_type) == IF to_type # NoneV THEN EmptyCache ELSE tcache

\* A registration that records the output type and forgets the function.
SerializersKept(type_, fn) == SERIALIZERS

\* SERIALIZERS[type_] = fn
SerializersAfterRegister(type_, fn) == DictSet(SERIALIZERS, type_, fn)

\* A registration that forgets get_serializer.cache_clear().
FCacheKept == fcache

\* get_serializer.cache_clear()
FCacheAfterRegister == EmptyCache

\* The exploration bound: fewer than MaxRegs registrations have succeeded.
Running == Len(regLog) < MaxRegs

RegisterCall(fn, overwrite, outcome, warned) ==
    [NoCall EXCEPT !.op = "register", !.fn = fn, !.overwrite = overwrite,
                   !.outcome = outcome, !.warned = warned]

Register(fn, to, overwrite) ==
    /\ Running
    /\ UNCHANGED <<readers, registrar>>
    /\ IF SignatureRaises(fn)
       THEN /\ last' = RegisterCall(fn, overwrite, "SignatureError", FALSE)
            /\ UNCHANGED <<SERIALIZERS, SERIALIZER_TYPES, fcache, tcache, regLog>>
       ELSE LET type_ == ArgType(fn)
                registered_fn == DictGet(SERIALIZERS, type_)
                to_type == ToType(to, fn)
            IN  IF ConflictRaises(registered_fn, fn, overwrite)
                THEN /\ last' = RegisterCall(fn, overwrite, "ConflictError", FALSE)
                     /\ UNCHANGED <<SERIALIZERS, SERIALIZER_TYPES, fcache,
                                    tcache, regLog>>
                ELSE /\ SERIALIZER_TYPES' = TypesAfterRegister(type_, to_type)
                     /\ tcache' = TCacheAfterRegister(to_type)
                     /\ SERIALIZERS' = SerializersAfterRegister(type_, fn)
                     /\ fcache' = FCacheAfterRegister
                     /\ regLog' = Append(regLog, [type_ |-> type_, fn |-> fn,
                                                  to |-> to])
                     /\ last' = [RegisterCall(fn, overwrite, "ok",
                                      Warns(registered_fn, fn, overwrite))
                                 EXCEPT !.type_ = type_]

-----------------------------------------------------------------------------
(* get_serializer and get_serializer_type                                  *)

\* The same scan in insertion order: the first registered ancestor wins.
RECURSIVE ForwardScanFrom(_, _, _)
ForwardScanFrom(d, type_, i) ==
    IF i > Len(d) THEN NoneV
    ELSE IF IsSubclass(type_, d[i].k) THEN d[i].v
    ELSE ForwardScanFrom(d, type_, i + 1)

ForwardScan(d, type_, i) == ForwardScanFrom(d, type_, 1)

\* The scan with the arguments of the subclass test swapped.
RECURSIVE SwappedScan(_, _, _)
SwappedScan(d, type_, i) ==
    IF i = 0 THEN NoneV
    ELSE IF IsSubclass(d[i].k, type_) THEN d[i].v
    ELSE SwappedScan(d, type_, i - 1)

\* for registered_type, serializer in reversed(d.items()):
\*     if types._issubclass(type_, registered_type): return serializer
\* return None
RECURSIVE ReversedScan(_, _, _)
ReversedScan(d, type_, i) ==
    IF i = 0 THEN NoneV
    ELSE IF IsSubclass(type_, d[i].k) THEN d[i].v
    ELSE ReversedScan(d, type_, i - 1)

\* A get_serializer that goes straight to the subclass scan.
get_serializer_scan_only(type_) ==
    ReversedScan(SERIALIZERS, type_, Len(SERIALIZERS))

\* The body of get_serializer, run on a cache miss.
get_serializer_body(type_) ==
    LET serializer == DictGet(SERIALIZERS, type_)
    IN  IF serializer # NoneV THEN serializer
        ELSE ReversedScan(SERIALIZERS, type_, Len(SERIALIZERS))

\* What get_serializer(type_) returns in the current state.
get_serializer(type_) ==
    IF type_ \in DOMAIN fcache THEN fcache[type_] ELSE get_serializer_body(type_)

\* The body of get_serializer_type, run on a cache miss.
get_serializer_type_body(type_) ==
    LET serializer == DictGet(SERIALIZER_TYPES, type_)
    IN  IF serializer # NoneV THEN serializer
        ELSE ReversedScan(SERIALIZER_TYPES, type_, Len(SERIALIZER_TYPES))

\* What get_serializer_type(type_) returns in the current state.
get_serializer_type(type_) ==
    IF type_ \in DOMAIN tcache THEN tcache[type_]
    ELSE get_serializer_type_body(type_)

\* A resolution that keeps what it found by storing it under the queried
\* type in SERIALIZERS itself.
SerializersWithPromotion(type_) ==
    IF get_serializer_body(type_) # NoneV
    THEN DictSet(SERIALIZERS, type_, get_serializer_body(type_))
    ELSE SERIALIZERS

\* SERIALIZERS after a resolution of type_: get_serializer only reads it
\* (SERIALIZERS.get, reversed(SERIALIZERS.items())).
SerializersAfterLookup(type_) == SERIALIZERS

GetSerializer(type_) ==
    /\ Running
    /\ UNCHANGED <<readers, registrar>>
    /\ fcache' = Memoise(fcache, type_, get_serializer(type_))
    /\ last' = [NoCall EXCEPT !.op = "get_serializer", !.type_ = type_,
                              !.outcome = "ok", !.ret = get_serializer(type_)]
    /\ SERIALIZERS' = SerializersAfterLookup(type_)
    /\ UNCHANGED <<SERIALIZER_TYPES, tcache, regLog>>

GetSerializerType(type_) ==
    /\ Running
    /\ UNCHANGED <<readers, registrar>>
    /\ tcache' = Memoise(tcache, type_, get_serializer_type(type_))
    /\ last' = [NoCall EXCEPT !.op = "get_serializer_type", !.type_ = type_,
                              !.outcome = "ok",
                              !.ret = get_serializer_type(type_)]
    /\ UNCHANGED <<SERIALIZERS, SERIALIZER_TYPES, fcache, regLog>>

-----------------------------------------------------------------------------
(* serialize(value, get_type)                                              *)

\* A serialize that tries the dataclass reflection before the registry.
serialize_dataclass_first(value, get_type) ==
    LET serializer == get_serializer(TypeOf(value))
    IN  IF IsDataclassInstance(value) THEN Single(FieldMapping(value))
        ELSE IF serializer = NoneV
        THEN IF get_type THEN Pair(Absent, NoneV) ELSE Single(Absent)
        ELSE IF get_type
             THEN Pair(Applied(serializer, value),
                       get_serializer_type(TypeOf(value)))
             ELSE Single(Applied(serializer, value))

\* What serialize(value, get_type) returns in the current state.
serialize(value, get_type) ==
    LET serializer == get_serializer(TypeOf(value))
    IN  IF serializer = NoneV
        THEN IF IsDataclassInstance(value) THEN Single(FieldMapping(value))
             ELSE IF get_type THEN Pair(Absent, NoneV)
             ELSE Single(Absent)
        ELSE IF get_type
             THEN Pair(Applied(serializer, value),
                       get_serializer_type(TypeOf(value)))
             ELSE Single(Applied(serializer, value))

\* get_serializer_type is called only on the last path of serialize.
SerializeReadsType(value, get_type) ==
    get_serializer(TypeOf(value)) # NoneV /\ get_type

Serialize(value, get_type) ==
    /\ Running
    /\ UNCHANGED <<readers, registrar>>
    /\ fcache' = Memoise(fcache, TypeOf(value), get_serializer(TypeOf(value)))
    /\ tcache' = IF SerializeReadsType(value, get_type)
                 THEN Memoise(tcache, TypeOf(value),
                              get_serializer_type(TypeOf(value)))
                 ELSE tcache
    /\ last' = [NoCall EXCEPT !.op = "serialize", !.value = value,
                              !.type_ = TypeOf(value), !.get_type = get_type,
                              !.outcome = "ok",
                              !.sres = serialize(value, get_type)]
    /\ SERIALIZERS' = SerializersAfterLookup(TypeOf(value))
    /\ UNCHANGED <<SERIALIZER_TYPES, regLog>>

-----------------------------------------------------------------------------
(* has_serializer(type_, into_type) and can_serialize(type_, into_type)    *)

\* A bool as the record of a call shows it.
BoolStr(b) == IF b THEN "True" ELSE "False"

\* What has_serializer(type_, into_type) returns in the current state.
has_serializer(type_, into_type) ==
    LET serializer_for_type == get_serializer(type_)
    IN  /\ serializer_for_type # NoneV
        /\ (into_type = NoneV \/ get_serializer_type(type_) = into_type)

\* get_serializer_type is called only if a serializer was found and an
\* into_type was given.
HasSerializerReadsType(type_, into_type) ==
    get_serializer(type_) # NoneV /\ into_type # NoneV

\* A can_serialize that leaves out the dataclass alternative.
can_serialize_registered_only(type_, into_type) ==
    has_serializer(type_, into_type)

\* What can_serialize(type_, into_type) returns in the current state.
can_serialize(type_, into_type) ==
    \/ has_serializer(type_, into_type)
    \/ /\ IsDataclassType(type_)
       /\ (into_type = NoneV \/ into_type = "dict")

HasSerializer(type_, into_type) ==
    /\ Running
    /\ UNCHANGED <<readers, registrar>>
    /\ fcache' = Memoise(fcache, type_, get_serializer(type_))
    /\ tcache' = IF HasSerializerReadsType(type_, into_type)
                 THEN Memoise(tcache, type_, get_serializer_type(type_))
                 ELSE tcache
    /\ last' = [NoCall EXCEPT !.op = "has_serializer", !.type_ = type_,
                              !.into_type = into_type, !.outcome = "ok",
                              !.ret = BoolStr(has_serializer(type_, into_type))]
    /\ SERIALIZERS' = SerializersAfterLookup(type_)
    /\ UNCHANGED <<SERIALIZER_TYPES, regLog>>

CanSerialize(type_, into_type) ==
    /\ Running
    /\ UNCHANGED <<readers, registrar>>
    /\ fcache' = Memoise(fcache, type_, get_serializer(type_))
    /\ tcache' = IF HasSerializerReadsType(type_, into_type)
                 THEN Memoise(tcache, type_, get_serializer_type(type_))
                 ELSE tcache
    /\ last' = [NoCall EXCEPT !.op = "can_serialize", !.type_ = type_,
                              !.into_type = into_type, !.outcome = "ok",
                              !.ret = BoolStr(can_serialize(type_, into_type))]
    /\ SERIALIZERS' = SerializersAfterLookup(type_)
    /\ UNCHANGED <<SERIALIZER_TYPES, regLog>>

-----------------------------------------------------------------------------
(* Calls made from several threads.  A reader thread makes one call of     *)
(* get_serializer, get_serializer_type or serialize at a time and takes it *)
(* in the steps at which another thread can come in between: the lookup in *)
(* the lru_cache, the body on a miss, the store of the memo, the call of   *)
(* the serializer.  What a thread does between two of these touches only   *)
(* its own locals and is part of the step before.                          *)

Readers == {"r1", "r2"}

\* The arguments the reader threads call with.
ReaderTypes == {"D"}

ReaderValues == {"d1"}

\* The locals of a thread: the call it is in and its argument (a type, or
\* for serialize a value), the serializer and the output type returned to it
\* so far, and whether it has called the serializer.
IdleReader ==
    [pc |-> "idle", op |-> "none", arg |-> NoneV, get_type |-> FALSE,
     serializer |-> NoneV, ty |-> NoneV, called |-> FALSE]

\* The type a thread's call resolves: type_, or type(value) in serialize.
ReaderType(rd) == IF rd.op = "serialize" THEN TypeOf(rd.arg) ELSE rd.arg

AllIdle == \A r \in Readers : readers[r].pc = "idle"

\* An lru_cache that marks a key as being computed when a call misses.
CacheWithPlaceholder(cache, type_) == Memoise(cache, type_, NoneV)

\* lru_cache on a miss: the cache stays as it is while the body runs.
CacheAfterMiss(cache, type_) == cache

\* lru_cache after the body has returned: the result is stored unless
\* another call has stored the key in the meantime.
StoreMemo(cache, type_, result) ==
    IF type_ \in DOMAIN cache THEN cache ELSE Memoise(cache, type_, result)

\* A thread enters get_serializer(type_).
CallGetSerializer(r, type_) ==
    /\ Running
    /\ readers[r].pc = "idle"
    /\ readers' = [readers EXCEPT ![r] =
          [IdleReader EXCEPT !.pc = "f_lookup", !.op = "get_serializer",
                             !.arg = type_]]
    /\ UNCHANGED <<SERIALIZERS, SERIALIZER_TYPES, fcache, tcache, regLog, last,
                   registrar>>

\* A thread enters get_serializer_type(type_).
CallGetSerializerType(r, type_) ==
    /\ Running
    /\ readers[r].pc = "idle"
    /\ readers' = [readers EXCEPT ![r] =
          [IdleReader EXCEPT !.pc = "t_lookup", !.op = "get_serializer_type",
                             !.arg = type_]]
    /\ UNCHANGED <<SERIALIZERS, SERIALIZER_TYPES, fcache, tcache, regLog, last,
                   registrar>>

\* A thread enters serialize(value, get_type) and, at line 153,
\* get_serializer(type(value)).
CallSerialize(r, value, get_type) ==
    /\ Running
    /\ readers[r].pc = "idle"
    /\ readers' = [readers EXCEPT ![r] =
          [IdleReader EXCEPT !.pc = "f_lookup", !.op = "serialize",
                             !.arg = value, !.get_type = get_type]]
    /\ UNCHANGED <<SERIALIZERS, SERIALIZER_TYPES, fcache, tcache, regLog, last,
                   registrar>>

\* The thread after get_serializer has returned serializer to it: a direct
\* call is over; serialize returns at lines 157-162 when nothing was found
\* and goes on to line 165 otherwise.
AfterGetSerializer(rd, serializer) ==
    [rd EXCEPT !.serializer = serializer,
               !.pc = IF rd.op = "serialize" /\ serializer # NoneV
                      THEN "apply" ELSE "idle"]

\* The thread after get_serializer_type has returned ty to it: the call, or
\* serialize at line 169, returns.
AfterGetSerializerType(rd, ty) == [rd EXCEPT !.ty = ty, !.pc = "idle"]

\* What a call that has come back handed to its caller, from the locals it
\* ended with: the serializer, the output type, or what serialize returns at
\* lines 158, 161, 162, 169 or 170.
ReturnValue(rd) ==
    IF rd.serializer = NoneV
    THEN IF IsDataclassInstance(rd.arg) THEN Single(FieldMapping(rd.arg))
         ELSE IF rd.get_type THEN Pair(Absent, NoneV)
         ELSE Single(Absent)
    ELSE IF rd.get_type THEN Pair(Applied(rd.serializer, rd.arg), rd.ty)
         ELSE Single(Applied(rd.serializer, rd.arg))

\* The lru_cache of get_serializer is looked up: a hit returns the memo, a
\* miss goes on to the body.
FCacheLookup(r) ==
    /\ readers[r].pc = "f_lookup"
    /\ IF ReaderType(readers[r]) \in DOMAIN fcache
       THEN /\ readers' = [readers EXCEPT ![r] =
                  AfterGetSerializer(readers[r], fcache[ReaderType(readers[r])])]
            /\ fcache' = fcache
       ELSE /\ readers' = [readers EXCEPT ![r].pc = "f_body"]
            /\ fcache' = CacheAfterMiss(fcache, ReaderType(readers[r]))
    /\ UNCHANGED <<SERIALIZERS, SERIALIZER_TYPES, tcache, regLog, last, registrar>>

\* The body of get_serializer reads SERIALIZERS.
FBody(r) ==
    /\ readers[r].pc = "f_body"
    /\ readers' = [readers EXCEPT ![r].pc = "f_store",
                                  ![r].serializer =
                                      get_serializer_body(ReaderType(readers[r]))]
    /\ UNCHANGED <<SERIALIZERS, SERIALIZER_TYPES, fcache, tcache, regLog, last,
                   registrar>>

\* The lru_cache stores what the body returned, and get_serializer returns.
FCacheStore(r) ==
    /\ readers[r].pc = "f_store"
    /\ fcache' = StoreMemo(fcache, ReaderType(readers[r]), readers[r].serializer)
    /\ readers' = [readers EXCEPT ![r] =
          AfterGetSerializer(readers[r], readers[r].serializer)]
    /\ UNCHANGED <<SERIALIZERS, SERIALIZER_TYPES, tcache, regLog, last, registrar>>

\* serialized = serializer(value), line 165; then serialize returns it, or
\* enters get_serializer_type(type(value)) at line 169.
ApplySerializer(r) ==
    /\ readers[r].pc = "apply"
    /\ readers' = [readers EXCEPT ![r].called = TRUE,
                                  ![r].pc = IF readers[r].get_type
                                            THEN "t_lookup" ELSE "idle"]
    /\ UNCHANGED <<SERIALIZERS, SERIALIZER_TYPES, fcache, tcache, regLog, last,
                   registrar>>

\* The lru_cache of get_serializer_type is looked up.
TCacheLookup(r) ==
    /\ readers[r].pc = "t_lookup"
    /\ IF ReaderType(readers[r]) \in DOMAIN tcache
       THEN /\ readers' = [readers EXCEPT ![r] =
                  AfterGetSerializerType(readers[r],
                                         tcache[ReaderType(readers[r])])]
            /\ tcache' = tcache
       ELSE /\ readers' = [readers EXCEPT ![r].pc = "t_body"]
            /\ tcache' = CacheAfterMiss(tcache, ReaderType(readers[r]))
    /\ UNCHANGED <<SERIALIZERS, SERIALIZER_TYPES, fcache, regLog, last, registrar>>

\* The body of get_serializer_type reads SERIALIZER_TYPES.
TBody(r) ==
    /\ readers[r].pc = "t_body"
    /\ readers' = [readers EXCEPT ![r].pc = "t_store",
                                  ![r].ty = get_serializer_type_body(
                                                ReaderType(readers[r]))]
    /\ UNCHANGED <<SERIALIZERS, SERIALIZER_TYPES, fcache, tcache, regLog, last,
                   registrar>>

\* The lru_cache stores what the body returned, and get_serializer_type
\* returns.
TCacheStore(r) ==
    /\ readers[r].pc = "t_store"
    /\ tcache' = StoreMemo(tcache, ReaderType(readers[r]), readers[r].ty)
    /\ readers' = [readers EXCEPT ![r] =
          AfterGetSerializerType(readers[r], readers[r].ty)]
    /\ UNCHANGED <<SERIALIZERS, SERIALIZER_TYPES, fcache, regLog, last, registrar>>

\* One step of a reader thread.
ReaderStep(r) ==
    \/ \E type_ \in ReaderTypes : CallGetSerializer(r, type_)
    \/ \E type_ \in ReaderTypes : CallGetSerializerType(r, type_)
    \/ \E value \in ReaderValues, get_type \in BOOLEAN :
          CallSerialize(r, value, get_type)
    \/ FCacheLookup(r)
    \/ FBody(r)
    \/ FCacheStore(r)
    \/ ApplySerializer(r)
    \/ TCacheLookup(r)
    \/ TBody(r)
    \/ TCacheStore(r)

\* A registration made while no reader is inside a call; the registry is
\* stable during every lookup.
RegisterWhileIdle(fn, to, overwrite) ==
    /\ AllIdle
    /\ Register(fn, to, overwrite)

\* A thread inside the decorator takes the wrapper in steps too: the checks
\* of lines 74-105, then each store and each cache_clear of lines 110-116.
IdleRegistrar ==
    [pc |-> "idle", fn |-> NoneV, to |-> NoneV, type_ |-> NoneV,
     to_type |-> NoneV]

\* Lines 74-107: the signature and the conflict are checked and to_type is
\* worked out; a raise ends the call with nothing written.
StartRegistration(fn, to, overwrite) ==
    /\ Running
    /\ registrar.pc = "idle"
    /\ ~SignatureRaises(fn)
    /\ ~ConflictRaises(DictGet(SERIALIZERS, ArgType(fn)), fn, overwrite)
    /\ registrar' = [pc |-> IF ToType(to, fn) # NoneV THEN "store_type"
                            ELSE "store_fn",
                     fn |-> fn, to |-> to, type_ |-> ArgType(fn),
                     to_type |-> ToType(to, fn)]
    /\ UNCHANGED <<SERIALIZERS, SERIALIZER_TYPES, fcache, tcache, regLog, last,
                   readers>>

\* Line 111: SERIALIZER_TYPES[type_] = to_type
StoreOutputType ==
    /\ registrar.pc = "store_type"
    /\ SERIALIZER_TYPES' = TypesAfterRegister(registrar.type_, registrar.to_type)
    /\ registrar' = [registrar EXCEPT !.pc = "clear_types"]
    /\ UNCHANGED <<SERIALIZERS, fcache, tcache, regLog, last, readers>>

\* Line 112: get_serializer_type.cache_clear()
ClearTypeCache ==
    /\ registrar.pc = "clear_types"
    /\ tcache' = TCacheAfterRegister(registrar.to_type)
    /\ registrar' = [registrar EXCEPT !.pc = "store_fn"]
    /\ UNCHANGED <<SERIALIZERS, SERIALIZER_TYPES, fcache, regLog, last, readers>>

\* Line 115: SERIALIZERS[type_] = fn
StoreSerializer ==
    /\ registrar.pc = "store_fn"
    /\ SERIALIZERS' = SerializersAfterRegister(registrar.type_, registrar.fn)
    /\ registrar' = [registrar EXCEPT !.pc = "clear_fns"]
    /\ UNCHANGED <<SERIALIZER_TYPES, fcache, tcache, regLog, last, readers>>

\* Line 116: get_serializer.cache_clear(); the registration is complete.
ClearSerializerCache ==
    /\ registrar.pc = "clear_fns"
    /\ fcache' = FCacheAfterRegister
    /\ regLog' = Append(regLog, [type_ |-> registrar.type_, fn |-> registrar.fn,
                                 to |-> registrar.to])
    /\ registrar' = IdleRegistrar
    /\ UNCHANGED <<SERIALIZERS, SERIALIZER_TYPES, tcache, last, readers>>

\* The functions registered while reader threads are about.
ThreadedFns == {"fA", "gA", "fB"}

-----------------------------------------------------------------------------
(* The registry as a state machine.                                        *)

Init ==
    /\ SERIALIZERS = <<>>
    /\ SERIALIZER_TYPES = <<>>
    /\ fcache = EmptyCache
    /\ tcache = EmptyCache
    /\ regLog = <<>>
    /\ last = NoCall
    /\ readers = [r \in Readers |-> IdleReader]
    /\ registrar = IdleRegistrar

Next ==
    \/ \E fn \in Fns : \E to \in ToArgs(fn), overwrite \in OverwriteArgs(fn) :
          Register(fn, to, overwrite)
    \/ \E type_ \in QueryTypes : GetSerializer(type_)
    \/ \E type_ \in QueryTypes : GetSerializerType(type_)
    \/ \E value \in Values, get_type \in BOOLEAN : Serialize(value, get_type)
    \/ \E type_ \in AskedTypes, into_type \in IntoTypes :
          HasSerializer(type_, into_type)
    \/ \E type_ \in AskedTypes, into_type \in IntoTypes :
          CanSerialize(type_, into_type)

Spec == Init /\ [][Next]_vars

\* Reader threads calling concurrently, and registrations between their
\* calls.
NextReaders ==
    \/ \E r \in Readers : ReaderStep(r)
    \/ \E fn \in ThreadedFns : \E to \in ToArgs(fn) :
          RegisterWhileIdle(fn, to, "True")

SpecReaders == Init /\ [][NextReaders]_vars

\* The reader threads that call while another thread registers.
RaceReaders == {"r1"}

NextRace ==
    \/ \E r \in RaceReaders : ReaderStep(r)
    \/ \E fn \in ThreadedFns : \E to \in ToArgs(fn) :
          StartRegistration(fn, to, "True")
    \/ StoreOutputType
    \/ ClearTypeCache
    \/ StoreSerializer
    \/ ClearSerializerCache

SpecRace == Init /\ [][NextRace]_vars

-----------------------------------------------------------------------------
(* Vocabulary of the properties.                                           *)

\* The function of the entry of SERIALIZERS keyed exactly by type_.
EntryFunction(type_) ==
    SERIALIZERS[CHOOSE i \in 1..Len(SERIALIZERS) : SERIALIZERS[i].k = type_].v

\* The registered types type_ derives from.
RegisteredAncestors(type_) == Keys(SERIALIZERS) \cap Bases(type_)

\* The resolution the documentation describes, on the current SERIALIZERS
\* and without any memo: the exact entry, else the entry of the ancestor
\* that comes last in insertion order, else nothing.
ResolveFunction(type_) ==
    IF type_ \in Keys(SERIALIZERS) THEN EntryFunction(type_)
    ELSE IF RegisteredAncestors(type_) = {} THEN NoneV
    ELSE LET at == {i \in 1..Len(SERIALIZERS) :
                        SERIALIZERS[i].k \in RegisteredAncestors(type_)}
         IN  SERIALIZERS[CHOOSE i \in at : \A j \in at : j <= i].v

\* The same resolution on SERIALIZER_TYPES: the output type recorded for
\* type_ itself, else the one recorded for the ancestor whose entry comes
\* last in insertion order, else nothing.
ResolveOutputType(type_) ==
    LET at == {i \in 1..Len(SERIALIZER_TYPES) :
                   SERIALIZER_TYPES[i].k \in Bases(type_)}
    IN  IF type_ \in Keys(SERIALIZER_TYPES)
        THEN SERIALIZER_TYPES[CHOOSE i \in 1..Len(SERIALIZER_TYPES) :
                                  SERIALIZER_TYPES[i].k = type_].v
        ELSE IF at = {} THEN NoneV
        ELSE SERIALIZER_TYPES[CHOOSE i \in at : \A j \in at : j <= i].v

\* The successful registrations made for type_, as positions of regLog.
RegistrationsOf(type_) == {i \in 1..Len(regLog) : regLog[i].type_ = type_}

\* The first registration of a precedes the first registration of b.
RegisteredBefore(a, b) ==
    /\ RegistrationsOf(a) # {} /\ RegistrationsOf(b) # {}
    /\ \E i \in RegistrationsOf(a) : \A j \in RegistrationsOf(b) : i < j

-----------------------------------------------------------------------------
(* C1..C3: resolution of the conversion function.                          *)

\* C1: after any sequence of registrations (successful or failed) and
\* lookups, get_serializer(T) returns, for every type T, exactly what the
\* uncached algorithm yields on the current SERIALIZERS; no memo made before
\* a registration survives it.
C1_FunctionCacheCoherent ==
    \A type_ \in Types : get_serializer(type_) = ResolveFunction(type_)

\* C1 happens: fA was registered for A, gA then replaced it, and a lookup
\* of A made after that answered gA and memoised it.
C1_Witness ==
    /\ Len(regLog) >= 2
    /\ regLog[1].fn = "fA" /\ regLog[Len(regLog)].fn = "gA"
    /\ last.op = "get_serializer" /\ last.type_ = "A" /\ last.ret = "gA"
    /\ "A" \in DOMAIN fcache /\ fcache["A"] = "gA"

\* C2: whenever SERIALIZERS holds an entry keyed exactly by T,
\* get_serializer(T) returns that entry's function, however many ancestors
\* of T are registered and whether before or after T.
C2_ExactMatchPriority ==
    \A type_ \in Types :
        type_ \in Keys(SERIALIZERS) => get_serializer(type_) = EntryFunction(type_)

\* C2 happens: D was registered, its ancestor A after it, and a lookup of D
\* answered D's own function.
C2_Witness ==
    /\ RegisteredBefore("D", "A")
    /\ last.op = "get_serializer" /\ last.type_ = "D" /\ last.ret = "fD"

\* C3: if T has no exact entry and its registered ancestors A and B were
\* registered in that order, with no ancestor of T registered after B, then
\* get_serializer(T) returns B's function.
C3_RecencyTieBreak ==
    \A type_ \in Types : \A a, b \in RegisteredAncestors(type_) :
        ( /\ type_ \notin Keys(SERIALIZERS)
          /\ RegisteredBefore(a, b)
          /\ \A c \in RegisteredAncestors(type_) : ~RegisteredBefore(b, c) )
        => get_serializer(type_) = EntryFunction(b)

\* C3 happens: A was registered before B, D has no entry of its own, and a
\* lookup of D answered B's function.
C3_Witness ==
    /\ RegisteredBefore("A", "B")
    /\ "D" \notin Keys(SERIALIZERS)
    /\ last.op = "get_serializer" /\ last.type_ = "D"
    /\ last.ret = EntryFunction("B")

-----------------------------------------------------------------------------
(* C4..C6: the outcome of a registration.  A step is a call of the         *)
(* decorator exactly when it leaves a "register" record in last; the       *)
(* unprimed variables are the state the call found.                        *)

\* The step is a registration of a function with a usable signature for a
\* type that already has an entry.
RegistersOverEntry ==
    /\ last'.op = "register"
    /\ ~SignatureRaises(last'.fn)
    /\ ArgType(last'.fn) \in Keys(SERIALIZERS)

\* Neither mapping and neither cache is touched by the step.
RegistryUntouched == UNCHANGED <<SERIALIZERS, SERIALIZER_TYPES, fcache, tcache>>

\* C4 as stated: registering any function for an exact type that already
\* has an entry, with overwrite=false, fails with the conflict error and
\* leaves both mappings and both caches as they were.
C4_AnyFunctionConflicts ==
    [][ (RegistersOverEntry /\ last'.overwrite = "False")
        => (last'.outcome = "ConflictError" /\ RegistryUntouched) ]_vars

\* C4 amended: registering a function other than the one currently
\* registered for the type, with overwrite=false, fails with the conflict
\* error and leaves both mappings and both caches as they were.
C4_OtherFunctionConflicts ==
    [][ ( /\ RegistersOverEntry /\ last'.overwrite = "False"
          /\ EntryFunction(ArgType(last'.fn)) # last'.fn )
        => (last'.outcome = "ConflictError" /\ RegistryUntouched) ]_vars

\* C4 happens: gA was refused while fA held the entry of A, with both
\* caches populated.
C4_Witness ==
    /\ last.op = "register" /\ last.fn = "gA" /\ last.overwrite = "False"
    /\ last.outcome = "ConflictError"
    /\ EntryFunction("A") = "fA"
    /\ DOMAIN fcache # {} /\ DOMAIN tcache # {}

\* C5: registering g for a type that holds a different function, with
\* overwrite=true or unspecified, succeeds and leaves exactly one entry for
\* the type, holding g, which get_serializer then returns; a warning is
\* emitted exactly when overwrite is unspecified.
C5_OverwriteReplaces ==
    [][ ( /\ RegistersOverEntry /\ last'.overwrite \in {"True", NoneV}
          /\ EntryFunction(ArgType(last'.fn)) # last'.fn )
        => ( /\ last'.outcome = "ok"
             /\ Cardinality(Positions(SERIALIZERS', ArgType(last'.fn))) = 1
             /\ \A i \in Positions(SERIALIZERS', ArgType(last'.fn)) :
                    SERIALIZERS'[i].v = last'.fn
             /\ \A type_ \in Types :
                    type_ = ArgType(last'.fn) => get_serializer(type_)' = last'.fn
             /\ last'.warned <=> (last'.overwrite = NoneV) ) ]_vars

\* C5 happens: gA replaced fA with overwrite unspecified, and warned.
C5_Witness ==
    /\ last.op = "register" /\ last.fn = "gA" /\ last.overwrite = NoneV
    /\ last.outcome = "ok" /\ last.warned
    /\ \E i \in 1..Len(regLog) : regLog[i].fn = "fA"
    /\ Cardinality(Positions(SERIALIZERS, "A")) = 1
    /\ EntryFunction("A") = "gA"

\* C6: registering a function that does not declare exactly one input
\* parameter fails with the signature error and changes nothing.
C6_WrongArityRejected ==
    [][ (last'.op = "register" /\ Len(FnParams(last'.fn)) # 1)
        => (last'.outcome = "SignatureError" /\ RegistryUntouched) ]_vars

-----------------------------------------------------------------------------
(* C7..C10: serialize.                                                     *)

\* C7: serialize called with get_type=true returns a pair on every path.
C7_PairOnEveryPath ==
    (last.op = "serialize" /\ last.get_type) => last.sres.shape = "pair"

\* No entry of SERIALIZERS is keyed by type_ or by one of its bases.
Unregistered(type_) == Keys(SERIALIZERS) \cap ({type_} \cup Bases(type_)) = {}

\* C8: for a value that is no dataclass instance and whose type has no
\* exact or ancestor entry, serialize returns None, or (None, None) when
\* get_type=true, and both resolution functions return None.
C8_AbsenceIsNotFailure ==
    /\ \A type_ \in Types :
          Unregistered(type_) =>
              /\ get_serializer(type_) = NoneV
              /\ get_serializer_type(type_) = NoneV
    /\ \A value \in Values :
          (Unregistered(TypeOf(value)) /\ ~IsDataclassInstance(value)) =>
              /\ serialize(value, FALSE) = Single(Absent)
              /\ serialize(value, TRUE) = Pair(Absent, NoneV)
    /\ last.op \in {"serialize", "get_serializer", "get_serializer_type"}
          => last.outcome = "ok"

\* C8 happens: with B registered and A not, serialize(a1, get_type=true)
\* returned (None, None).
C8_Witness ==
    /\ "B" \in Keys(SERIALIZERS) /\ Unregistered("A")
    /\ last.op = "serialize" /\ last.value = "a1" /\ last.get_type
    /\ last.outcome = "ok" /\ last.sres = Pair(Absent, NoneV)

\* The field mapping a result carries has exactly one key per declared
\* field of value, each mapped to the raw field value.
IsRawFieldMapping(val, value) ==
    /\ val.kind = "mapping"
    /\ {item[1] : item \in val.items} = FieldNames(value)
    /\ Cardinality(val.items) = Cardinality(FieldNames(value))
    /\ \A item \in val.items : item[2] = GetAttr(value, item[1])

\* C9: for a dataclass instance whose type resolves to no function,
\* serialize returns the mapping of its declared fields to their raw
\* values; that fallback is taken only when the resolution is absent, and a
\* call that takes it leaves SERIALIZER_TYPES and the output-type cache
\* alone.
C9_StructuralFallback ==
    /\ [](\A value \in Values : \A get_type \in BOOLEAN :
            /\ (IsDataclassInstance(value) /\ ResolveFunction(TypeOf(value)) = NoneV)
                  => IsRawFieldMapping(serialize(value, get_type).val, value)
            /\ serialize(value, get_type).val.kind = "mapping"
                  => ResolveFunction(TypeOf(value)) = NoneV)
    /\ [][ (last'.op = "serialize" /\ last'.sres.val.kind = "mapping")
           => UNCHANGED <<SERIALIZER_TYPES, tcache>> ]_vars

\* C9 happens: with A registered with an output type and looked up,
\* serialize(e1) returned {"y": a1}, the raw instance.
C9_Witness ==
    /\ "A" \in Keys(SERIALIZER_TYPES) /\ "A" \in DOMAIN tcache
    /\ last.op = "serialize" /\ last.value = "e1"
    /\ last.sres.val.kind = "mapping"
    /\ last.sres.val.items = {<<"y", "a1">>}

\* The output type a registration declares: the explicit `to` argument if
\* given, otherwise the function's declared return type.
DeclaredOutput(registration) ==
    IF registration.to # NoneV THEN registration.to
    ELSE FnReturn(registration.fn)

\* The latest successful registration for type_.
LatestRegistration(type_) ==
    regLog[CHOOSE i \in RegistrationsOf(type_) :
               \A j \in RegistrationsOf(type_) : j <= i]

\* C10: after a successful registration of f for T that declares an output
\* type X, serialize(v, get_type=true) for v of type exactly T returns
\* (f(v), X), until T is registered again.
C10_DeclaredOutputRoundTrip ==
    \A value \in Values :
        ( /\ RegistrationsOf(TypeOf(value)) # {}
          /\ DeclaredOutput(LatestRegistration(TypeOf(value))) # NoneV )
        => serialize(value, TRUE) =
              Pair(Applied(LatestRegistration(TypeOf(value)).fn, value),
                   DeclaredOutput(LatestRegistration(TypeOf(value))))

\* C10 happens: fA, which declares str, was registered for A with to=int,
\* another type was registered after it, and serialize(a1, get_type=true)
\* returned (fA(a1), int).
C10_Witness ==
    /\ Len(regLog) >= 2
    /\ regLog[1] = [type_ |-> "A", fn |-> "fA", to |-> "int"]
    /\ RegistrationsOf("A") = {1}
    /\ last.op = "serialize" /\ last.value = "a1" /\ last.get_type
    /\ last.sres = Pair(Applied("fA", "a1"), "int")

-----------------------------------------------------------------------------
(* C11..C13: the two mappings against each other, and the queries.         *)

\* C11: after any sequence of registrations every key of SERIALIZER_TYPES is
\* a key of SERIALIZERS, and so for every type T a resolvable output type
\* comes with a resolvable function: get_serializer_type(T) is not None only
\* if get_serializer(T) is not None.
C11_OutputTypeImpliesFunction ==
    /\ Keys(SERIALIZER_TYPES) \subseteq Keys(SERIALIZERS)
    /\ \A type_ \in Types :
          get_serializer_type(type_) # NoneV => get_serializer(type_) # NoneV

\* An output type has just been resolved for a type, while some other type
\* has a function and no output type (the converse does happen).
C11_Witness ==
    /\ last.op = "get_serializer_type" /\ last.ret # NoneV
    /\ SERIALIZER_TYPES # <<>>
    /\ \E type_ \in Types :
          get_serializer(type_) # NoneV /\ get_serializer_type(type_) = NoneV

\* The calls that look something up.
LookupOps ==
    {"get_serializer", "get_serializer_type", "has_serializer",
     "can_serialize", "serialize"}

\* C12: get_serializer, get_serializer_type, has_serializer, can_serialize
\* and serialize leave SERIALIZERS and SERIALIZER_TYPES as they were, items
\* and insertion order alike, whichever path the lookup takes; only the two
\* memo caches may change.
C12_LookupsReadOnly ==
    [][last'.op \in LookupOps =>
          /\ SERIALIZERS' = SERIALIZERS
          /\ SERIALIZER_TYPES' = SERIALIZER_TYPES]_vars

\* can_serialize has just answered for a type that has no entry of its own
\* and resolves through an ancestor, and both memo caches hold the type.
C12_Witness ==
    /\ last.op = "can_serialize" /\ last.type_ = "D"
    /\ "D" \notin Keys(SERIALIZERS)
    /\ get_serializer("D") # NoneV
    /\ "D" \in DOMAIN fcache /\ "D" \in DOMAIN tcache

\* has_serializer as the documentation states it, on the registry itself.
HasResolvable(type_, into_type) ==
    /\ ResolveFunction(type_) # NoneV
    /\ (into_type = NoneV \/ ResolveOutputType(type_) = into_type)

\* can_serialize as the documentation states it.
CanResolve(type_, into_type) ==
    \/ HasResolvable(type_, into_type)
    \/ type_ \in {TypeOf(v) : v \in {w \in Values : IsDataclassInstance(w)}}
       /\ into_type \in {NoneV, "dict"}

\* C13: has_serializer(T, into) is true iff a function resolves for T and
\* into is None or equals the resolved output type; can_serialize(T, into)
\* is true iff has_serializer(T, into) or T is a dataclass type and into is
\* None or dict; the answers the calls hand back are these.  With into None,
\* can_serialize(type(v)) is true exactly when serialize(v) applies a function
\* or returns the field mapping, false exactly when it returns None.
C13_QueryConsistency ==
    /\ \A type_ \in Types, into_type \in {NoneV} \cup OutTypes :
          /\ has_serializer(type_, into_type) <=> HasResolvable(type_, into_type)
          /\ can_serialize(type_, into_type) <=> CanResolve(type_, into_type)
    /\ last.op = "has_serializer" =>
          last.ret = BoolStr(HasResolvable(last.type_, last.into_type))
    /\ last.op = "can_serialize" =>
          last.ret = BoolStr(CanResolve(last.type_, last.into_type))
    /\ \A value \in Values :
          /\ can_serialize(TypeOf(value), NoneV) <=>
                serialize(value, FALSE).val.kind \in {"applied", "mapping"}
          /\ ~can_serialize(TypeOf(value), NoneV) <=>
                serialize(value, FALSE).val = Absent

\* can_serialize has just said yes for the dataclass D and dict although
\* has_serializer says no: a function resolves for D, with no output type.
\* A value of another type takes the absent path.
C13_Witness ==
    /\ last.op = "can_serialize" /\ last.type_ = "D" /\ last.into_type = "dict"
    /\ last.ret = "True"
    /\ get_serializer("D") # NoneV
    /\ ~has_serializer("D", "dict")
    /\ \E value \in Values : ~can_serialize(TypeOf(value), NoneV)

-----------------------------------------------------------------------------
(* C15, C16: the output-type cache, and recency after a re-registration.   *)

\* The step is a successful registration.
RegistrationSucceeds == Len(regLog') = Len(regLog) + 1

\* The step is a successful registration that records an output type.
RecordsOutputType ==
    /\ RegistrationSucceeds
    /\ DeclaredOutput(regLog'[Len(regLog')]) # NoneV

\* Every memo of get_serializer_type is still there after the step.
TypeMemosKept ==
    \A type_ \in DOMAIN tcache :
        type_ \in DOMAIN tcache' /\ tcache'[type_] = tcache[type_]

\* C15: the cache of get_serializer_type loses memos only in a registration
\* that records an output type, and after any sequence of registrations and
\* lookups get_serializer_type(T) equals, for every type T, the uncached
\* resolution (exact entry, else last-inserted ancestor, else None) over the
\* current SERIALIZER_TYPES.
C15_OutputTypeCacheCoherent ==
    /\ [](\A type_ \in Types :
             get_serializer_type(type_) = ResolveOutputType(type_))
    /\ [][~RecordsOutputType => TypeMemosKept]_vars

\* The output type of A was recorded twice, as str and then as int, and
\* get_serializer_type has just resolved D, which has no entry of its own,
\* to int.
C15_Witness ==
    /\ Len(regLog) = 2
    /\ regLog[1] = [type_ |-> "A", fn |-> "fA", to |-> NoneV]
    /\ regLog[2] = [type_ |-> "A", fn |-> "fA", to |-> "int"]
    /\ "D" \notin Keys(SERIALIZER_TYPES)
    /\ last.op = "get_serializer_type" /\ last.type_ = "D" /\ last.ret = "int"

\* The positions in regLog of the first and of the latest successful
\* registration for type_.
FirstRegistered(type_) ==
    CHOOSE i \in RegistrationsOf(type_) : \A j \in RegistrationsOf(type_) : i <= j

LastRegistered(type_) ==
    CHOOSE i \in RegistrationsOf(type_) : \A j \in RegistrationsOf(type_) : j <= i

\* Ancestor a of type_ was registered, then ancestor b, then a again with
\* another function, and type_ has no entry of its own.
ReRegisteredAfter(type_, a, b) ==
    /\ type_ \notin Keys(SERIALIZERS)
    /\ a \in RegisteredAncestors(type_) /\ b \in RegisteredAncestors(type_)
    /\ FirstRegistered(a) < FirstRegistered(b)
    /\ LastRegistered(b) < LastRegistered(a)
    /\ regLog[LastRegistered(a)].fn # regLog[FirstRegistered(a)].fn

\* C16 as stated: after registering ancestor A, then ancestor B, then A
\* again with a new function, A counts as registered last, and a type T
\* with no entry of its own that derives from both resolves to A's new
\* function.
C16_LatestRegistrationWins ==
    \A type_ \in Types : \A a, b \in Types :
        ( /\ ReRegisteredAfter(type_, a, b)
          /\ \A c \in RegisteredAncestors(type_) :
                 LastRegistered(c) <= LastRegistered(a) )
        => get_serializer(type_) = regLog[LastRegistered(a)].fn

\* C16 amended: after registering ancestor A, then ancestor B, then A again
\* with a new function, A's entry holds the new function and keeps its place
\* in the insertion order; B's entry is still the last one, and a type T
\* with no entry of its own that derives from both resolves to B's function.
C16_FirstRegistrationWins ==
    \A type_ \in Types : \A a, b \in Types :
        ( /\ ReRegisteredAfter(type_, a, b)
          /\ \A c \in RegisteredAncestors(type_) :
                 FirstRegistered(c) <= FirstRegistered(b) )
        => /\ get_serializer(a) = regLog[LastRegistered(a)].fn
           /\ get_serializer(type_) = EntryFunction(b)

\* C16 happens: fA was registered for A, fB for B, gA has just replaced fA,
\* and D resolves to fB.
C16_Witness ==
    /\ Len(regLog) = 3
    /\ regLog[1].fn = "fA" /\ regLog[2].fn = "fB" /\ regLog[3].fn = "gA"
    /\ last.op = "register" /\ last.fn = "gA" /\ last.outcome = "ok"
    /\ ReRegisteredAfter("D", "A", "B")
    /\ EntryFunction("A") = "gA"
    /\ get_serializer("D") = "fB"

-----------------------------------------------------------------------------
(* C18..C20: what a registration leaves alone.                             *)

\* The step is a successful registration with no `to` of a function that
\* declares no return type.
RegistersWithoutOutputType ==
    /\ RegistrationSucceeds
    /\ DeclaredOutput(regLog'[Len(regLog')]) = NoneV

\* C18: a successful registration for T with no explicit output type and no
\* declared return type leaves SERIALIZER_TYPES and the cache of
\* get_serializer_type exactly as they were; if T had the output type X
\* recorded, get_serializer_type(T) still returns X afterwards while
\* get_serializer(T) returns the newly registered function.
C18_NoOutputTypeNoChange ==
    [][RegistersWithoutOutputType =>
          /\ SERIALIZER_TYPES' = SERIALIZER_TYPES
          /\ tcache' = tcache
          /\ \A type_ \in Types :
                /\ get_serializer_type(type_)' = get_serializer_type(type_)
                /\ ( /\ type_ = regLog'[Len(regLog')].type_
                     /\ type_ \in Keys(SERIALIZER_TYPES) )
                   => /\ get_serializer_type(type_)' = ResolveOutputType(type_)
                      /\ get_serializer(type_)' = regLog'[Len(regLog')].fn]_vars

\* C18 happens: fA was registered for A and recorded str, the output type of
\* A was looked up, and gA, which declares nothing, has just replaced fA;
\* the memo is still there and the output type of A is still str.
C18_Witness ==
    /\ Len(regLog) = 2
    /\ regLog[1] = [type_ |-> "A", fn |-> "fA", to |-> NoneV]
    /\ regLog[2] = [type_ |-> "A", fn |-> "gA", to |-> NoneV]
    /\ last.op = "register" /\ last.fn = "gA" /\ last.outcome = "ok"
    /\ EntryFunction("A") = "gA"
    /\ "A" \in DOMAIN tcache /\ tcache["A"] = "str"
    /\ get_serializer_type("A") = "str"

\* The step is a registration of the very function that holds the entry of
\* its type.
ReRegistersActive ==
    /\ RegistersOverEntry
    /\ EntryFunction(ArgType(last'.fn)) = last'.fn

\* C19: registering again the function that is the active entry for T
\* succeeds under every overwrite mode, with no error and no warning, and
\* leaves SERIALIZERS as it was, items and order; declaring the same output
\* type as the registration before it, it leaves SERIALIZER_TYPES as it was
\* too.
C19_IdempotentReRegistration ==
    [][ReRegistersActive =>
          /\ last'.outcome = "ok"
          /\ ~last'.warned
          /\ RegistrationSucceeds
          /\ SERIALIZERS' = SERIALIZERS
          /\ DeclaredOutput(regLog'[Len(regLog')]) =
                DeclaredOutput(LatestRegistration(ArgType(last'.fn)))
             => SERIALIZER_TYPES' = SERIALIZER_TYPES]_vars

\* C19 happens: fA was registered for A with to=int, B was registered, and
\* fA has just been registered again with to=int and overwrite=false.
C19_Witness ==
    /\ Len(regLog) = 3
    /\ regLog[1] = [type_ |-> "A", fn |-> "fA", to |-> "int"]
    /\ regLog[2].type_ = "B"
    /\ regLog[3] = regLog[1]
    /\ last.op = "register" /\ last.fn = "fA" /\ last.overwrite = "False"
    /\ last.outcome = "ok" /\ ~last.warned
    /\ Len(SERIALIZERS) = 2 /\ SERIALIZERS[1].k = "A"

\* C20: no call takes a key out of SERIALIZERS or SERIALIZER_TYPES, and a
\* type for which get_serializer returns a function (get_serializer_type a
\* type) still gets one after any further registration, failed registration
\* or lookup; only which one may change.
C20_ResolvabilityStable ==
    [][ \/ UNCHANGED <<SERIALIZERS, SERIALIZER_TYPES, fcache, tcache>>
        \/ /\ Keys(SERIALIZERS) \subseteq Keys(SERIALIZERS')
           /\ Keys(SERIALIZER_TYPES) \subseteq Keys(SERIALIZER_TYPES')
           /\ \A type_ \in Types :
                 /\ get_serializer(type_) # NoneV
                    => get_serializer(type_)' # NoneV
                 /\ get_serializer_type(type_) # NoneV
                    => get_serializer_type(type_)' # NoneV ]_vars

\* C20 happens: fA had been registered for A with an output type, gA has
\* replaced it without declaring one, and get_serializer_type has just
\* answered for D, which resolves through A: a function and an output type
\* are still found, the function is another one.
C20_Witness ==
    /\ Len(regLog) = 2
    /\ regLog[1].fn = "fA" /\ regLog[2].fn = "gA"
    /\ last.op = "get_serializer_type" /\ last.type_ = "D"
    /\ last.ret # NoneV
    /\ get_serializer("D") = "gA"

-----------------------------------------------------------------------------
(* C14, C17: calls from several threads.                                   *)

\* The step in which reader r comes back from its call.
Returns(r) == readers[r].pc # "idle" /\ readers'[r].pc = "idle"

\* The step in which reader r calls the serializer it holds.
Invokes(r) == ~readers[r].called /\ readers'[r].called

\* C14: with registrations made only while no lookup is under way, every
\* call of get_serializer, get_serializer_type and serialize made by
\* concurrent threads hands back what the same call made alone would, also
\* when several calls miss the cache for the same type at once; and a
\* serializer is called only by a thread to which get_serializer has
\* already returned it.
C14_ConcurrentReadersSequential ==
    [][\A r \in Readers :
          /\ (Returns(r) /\ readers[r].op = "get_serializer")
             => readers'[r].serializer = ResolveFunction(readers[r].arg)
          /\ (Returns(r) /\ readers[r].op = "get_serializer_type")
             => readers'[r].ty = ResolveOutputType(readers[r].arg)
          /\ (Returns(r) /\ readers[r].op = "serialize")
             => ReturnValue(readers'[r]) =
                   serialize(readers[r].arg, readers[r].get_type)
          /\ Invokes(r)
             => /\ readers[r].pc = "apply"
                /\ readers[r].serializer = ResolveFunction(ReaderType(readers[r]))
       ]_vars

\* C14 happens: r1 and r2 both missed the cache for the same type; r1 has
\* stored its memo, called the serializer and come back from serialize with
\* a pair, while r2 is still about to store its own result.
C14_Witness ==
    /\ readers["r1"].pc = "idle" /\ readers["r1"].op = "serialize"
    /\ readers["r1"].called /\ readers["r1"].get_type
    /\ ReturnValue(readers["r1"]).shape = "pair"
    /\ readers["r2"].pc = "f_store"
    /\ ReaderType(readers["r2"]) = ReaderType(readers["r1"])
    /\ ReaderType(readers["r2"]) \in DOMAIN fcache

\* C17: whenever no registration is under way, get_serializer(T) answers,
\* for every type T, what the resolution yields on the current SERIALIZERS,
\* also after a call that read SERIALIZERS before a registration's store
\* and stored its memo after that registration's cache_clear.
C17_NoStaleMemoSurvives ==
    registrar.pc = "idle" =>
        \A type_ \in Types : get_serializer(type_) = ResolveFunction(type_)

====
